---- MODULE Spec2Model ----
(***************************************************************************)
(* A model of the microfilaria front end: the theme store and the pages'   *)
(* use of it, the two single-shot views (detect, categorize) and the       *)
(* three variants of the real-time page (camera-fed socket client, push    *)
(* socket client, MJPEG page).  Each component's state is one record       *)
(* variable; each component has its own specification, in which the other  *)
(* components stay in their initial state.  variant names the real-time    *)
(* page variant that is mounted.  win replays the arrival-time window of   *)
(* the two socket clients over long runs of arrivals.                      *)
(***************************************************************************)
EXTENDS Integers, Sequences, FiniteSets, TLC

VARIABLES theme, view, cam, push, mjpeg, variant, win

vars == <<theme, view, cam, push, mjpeg, variant, win>>

\* No stored response (results = null) and no preview URL (previewUrl = '').
NoResults == [success |-> FALSE]

NoUrl == [blobOf |-> 0]

\* A single-shot view as mounted: useState's initial values.
ViewMounted(page) ==
  [page |-> page, selectedFile |-> 0, previewUrl |-> NoUrl, loading |-> FALSE,
   results |-> NoResults, error |-> "", requests |-> <<>>,
   lastOp |-> "mount", lastArg |-> 0]

ViewIdle == ViewMounted("detect")

\* A published fps figure: a finite number, or Infinity (a division by zero).
FpsOf(n) == [finite |-> TRUE, value |-> n]

FpsInfinity == [finite |-> FALSE, value |-> 0]

\* The camera-fed streaming page as mounted: useState's and useRef's initial
\* values, the socket created and not yet connected.
CamIdle ==
  [isConnected |-> FALSE, isStreaming |-> FALSE, facingMode |-> "environment",
   latestResult |-> 0, processingRef |-> FALSE, frameIdRef |-> 0,
   intervalRef |-> 0, streamRef |-> 0, videoSrc |-> 0,
   fps |-> FpsOf(0), frameTimesRef |-> <<>>, clock |-> 0,
   timers |-> {}, live |-> {}, ids |-> 0, starts |-> 0,
   gum |-> <<>>, plays |-> <<>>, timeouts |-> <<>>, blobs |-> 0, buffers |-> 0,
   sent |-> <<>>, unanswered |-> <<>>]

\* The push streaming page as mounted, the socket created and not yet
\* connected.  currentFrame and metadata: 0 for null, else the frame event
\* they were taken from.  lastFpsUpdate: <<>> for its initial 0 (the epoch),
\* else <<t>>.
PushIdle ==
  [isConnected |-> FALSE, isStreaming |-> FALSE,
   currentFrame |-> 0, frameNumber |-> 0, metadata |-> 0, streamInfo |-> FALSE,
   fps |-> FpsOf(0), frameTimestamps |-> <<>>, lastFpsUpdate |-> <<>>, clock |-> 0,
   received |-> 0, emitted |-> <<>>, open |-> 0,
   lastOp |-> "mount"]

\* The arrival-time window before any arrival.  list is the window the
\* handler keeps, log every arrival time so far, step the ms between two
\* arrivals.
WinIdle == [step |-> 0, list |-> <<>>, log |-> <<>>]

\* The MJPEG page's default settings.
DefaultSettings ==
  [streamType |-> "yolo", confidence |-> 25, alpha |-> 40, source |-> "0"]

\* No stream URL (streamUrl = "").
NoStreamUrl == ""

\* The MJPEG page as mounted.  streamError: "" for null.
MjpegIdle ==
  [isStreaming |-> FALSE, isLoading |-> FALSE, streamError |-> "",
   streamUrl |-> NoStreamUrl, settings |-> DefaultSettings,
   lastOp |-> "mount"]

(***************************************************************************)
(*                              THEME                                      *)
(*                                                                         *)
(* theme.page      the page the router shows                               *)
(* theme.phase     where a page load stands: "script" (document parsed,    *)
(*                 inline script not yet run), "hydrate", "effects" (state *)
(*                 initialised, mount effects pending), "homeMount" (Home  *)
(*                 mounted by a client-side navigation, effects pending),  *)
(*                 "homeRerender" (Home's queued state update pending),    *)
(*                 "ready"                                                 *)
(* theme.access    localStorage: "ok", "readonly" (setItem throws) or      *)
(*                 "blocked" (every access throws)                         *)
(* theme.stored    localStorage "theme": "null" (absent or empty), "dark", *)
(*                 "light", or "system" (any other string)                 *)
(* theme.media     matchMedia("(prefers-color-scheme: dark)"): "dark",     *)
(*                 "light", or "unsupported" (window.matchMedia missing)   *)
(* theme.isDarkMode  ThemeProvider's state                                 *)
(* theme.homeDark  Home's own isDarkMode state (truthiness)                *)
(* theme.rootDark  document.documentElement carries the class "dark"       *)
(* theme.choice, theme.since   history: the mode the last toggle chose     *)
(*                 ("none" before any), and what happened since:           *)
(*                 "toggled", then "reloaded"; "none" otherwise            *)
(* theme.uncaught  an exception escaped an effect or a handler             *)
(***************************************************************************)
Pages == {"home", "classification", "realtime"}

AccessModes == {"ok", "readonly", "blocked"}

StoredValues == {"null", "dark", "light", "system"}

MediaValues == {"dark", "light", "unsupported"}

ModeName(dark) == IF dark THEN "dark" ELSE "light"

\* getInitialDark with stored "light" falling through to the media query.
getInitialDark_ignoresLight(hasWindow, access, stored, media) ==
  IF ~hasWindow THEN FALSE
  ELSE IF access # "blocked" /\ stored = "dark" THEN TRUE
  ELSE media = "dark"

getInitialDark(hasWindow, access, stored, media) ==
  IF ~hasWindow THEN FALSE
  ELSE IF access # "blocked" /\ stored = "dark" THEN TRUE
  ELSE IF access # "blocked" /\ stored = "light" THEN FALSE
  ELSE media = "dark"

\* The blocking inline script: the root's "dark" class after it ran.  A throw
\* (storage blocked, or matchMedia missing when it is reached) is caught and
\* leaves the root as it was.
themeScript(access, stored, media, root) ==
  IF access = "blocked" THEN root
  ELSE IF stored = "dark" THEN TRUE
  ELSE IF stored = "null"
       THEN IF media = "unsupported" THEN root
            ELSE IF media = "dark" THEN TRUE ELSE root
  ELSE root

\* localStorage.setItem("theme", ...) without the try/catch: a throw escapes
\* the effect.
setItemTheme_noCatch(t, dark) ==
  IF t.access = "ok" THEN [t EXCEPT !.stored = ModeName(dark)]
  ELSE [t EXCEPT !.uncaught = TRUE]

\* localStorage.setItem("theme", ...) inside try/catch.
setItemTheme(t, dark) ==
  IF t.access = "ok" THEN [t EXCEPT !.stored = ModeName(dark)] ELSE t

\* ThemeProvider's effect: root class and storage follow the store's flag.
ProviderEffect(t) ==
  setItemTheme([t EXCEPT !.rootDark = t.isDarkMode], t.isDarkMode)

\* Home's second effect: the root class follows Home's own flag.
HomeSyncEffect(t) == [t EXCEPT !.rootDark = t.homeDark]

\* Home's mount: useState(false), then its two effects in order.  The first
\* only queues setIsDarkMode(prefersDark); the second runs with the flag false.
HomeMountEffects(t) == HomeSyncEffect([t EXCEPT !.homeDark = FALSE])

\* Whether the queued setIsDarkMode(prefersDark) changes Home's state (false):
\* prefersDark is true, false or undefined; only false bails out.
HomeUpdateQueued(t) == t.media # "light"

ThemeIdle ==
  [page |-> "home", phase |-> "script", access |-> "ok", stored |-> "null",
   media |-> "light", isDarkMode |-> FALSE, homeDark |-> FALSE,
   rootDark |-> FALSE, choice |-> "none", since |-> "none", uncaught |-> FALSE]

InitTheme ==
  /\ view = ViewIdle
  /\ cam = CamIdle
  /\ push = PushIdle
  /\ mjpeg = MjpegIdle
  /\ variant = "mjpeg"
  /\ win = WinIdle
  /\ theme \in {[ThemeIdle EXCEPT !.page = p, !.access = a, !.stored = s, !.media = m] :
                  p \in Pages, a \in AccessModes, s \in StoredValues, m \in MediaValues}

runThemeScript ==
  /\ theme.phase = "script"
  /\ theme' = [theme EXCEPT
                 !.rootDark = themeScript(theme.access, theme.stored, theme.media, theme.rootDark),
                 !.phase = "hydrate"]
  /\ UNCHANGED <<view, cam, push, mjpeg, variant, win>>

\* Hydration: ThemeProvider's useState(getInitialDark), Home's useState(false).
hydrate ==
  /\ theme.phase = "hydrate"
  /\ theme' = [theme EXCEPT
                 !.isDarkMode = getInitialDark(TRUE, theme.access, theme.stored, theme.media),
                 !.homeDark = FALSE,
                 !.phase = "effects"]
  /\ UNCHANGED <<view, cam, push, mjpeg, variant, win>>

\* Mount effects after hydration, children first: Home's, then ThemeProvider's.
mountEffects ==
  /\ theme.phase = "effects"
  /\ LET afterHome == IF theme.page = "home" THEN HomeMountEffects(theme) ELSE theme
         afterAll == ProviderEffect(afterHome)
     IN theme' = [afterAll EXCEPT
                    !.phase = IF theme.page = "home" /\ HomeUpdateQueued(theme)
                              THEN "homeRerender" ELSE "ready"]
  /\ UNCHANGED <<view, cam, push, mjpeg, variant, win>>

\* Home mounted by a client-side navigation: only Home's effects run.
homeMount ==
  /\ theme.phase = "homeMount"
  /\ theme' = [HomeMountEffects(theme) EXCEPT
                 !.phase = IF HomeUpdateQueued(theme) THEN "homeRerender" ELSE "ready"]
  /\ UNCHANGED <<view, cam, push, mjpeg, variant, win>>

\* Home re-renders with isDarkMode = prefersDark and its second effect reruns.
homeRerender ==
  /\ theme.phase = "homeRerender"
  /\ theme' = [HomeSyncEffect([theme EXCEPT !.homeDark = (theme.media = "dark")])
                 EXCEPT !.phase = "ready"]
  /\ UNCHANGED <<view, cam, push, mjpeg, variant, win>>

\* The navbar's button: ThemeProvider's toggle, then its effect.
toggleDarkMode ==
  /\ theme.phase = "ready"
  /\ theme' = [ProviderEffect([theme EXCEPT !.isDarkMode = ~theme.isDarkMode])
                 EXCEPT !.choice = ModeName(~theme.isDarkMode), !.since = "toggled"]
  /\ UNCHANGED <<view, cam, push, mjpeg, variant, win>>

\* Home's own button: setIsDarkMode(!isDarkMode), then Home's second effect.
homeToggle ==
  /\ theme.phase = "ready"
  /\ theme.page = "home"
  /\ theme' = [HomeSyncEffect([theme EXCEPT !.homeDark = ~theme.homeDark])
                 EXCEPT !.choice = ModeName(~theme.homeDark), !.since = "toggled"]
  /\ UNCHANGED <<view, cam, push, mjpeg, variant, win>>

\* A client-side navigation: the layout (ThemeProvider, Navbar) stays mounted.
navigate(p) ==
  /\ theme.phase = "ready"
  /\ p # theme.page
  /\ theme' = [theme EXCEPT !.page = p,
                            !.phase = IF p = "home" THEN "homeMount" ELSE "ready",
                            !.since = "none"]
  /\ UNCHANGED <<view, cam, push, mjpeg, variant, win>>

\* A full page load of the current page: a fresh document and fresh state.
reload ==
  /\ theme.phase = "ready"
  /\ theme' = [theme EXCEPT !.phase = "script", !.rootDark = FALSE,
                            !.isDarkMode = FALSE, !.homeDark = FALSE,
                            !.since = IF theme.since = "toggled" THEN "reloaded" ELSE "none"]
  /\ UNCHANGED <<view, cam, push, mjpeg, variant, win>>

NextTheme ==
  \/ runThemeScript
  \/ hydrate
  \/ mountEffects
  \/ homeMount
  \/ homeRerender
  \/ toggleDarkMode
  \/ homeToggle
  \/ \E p \in Pages : navigate(p)
  \/ reload

SpecTheme == InitTheme /\ [][NextTheme]_vars

(***************************************************************************)
(*                        SINGLE-SHOT VIEWS                                *)
(*                                                                         *)
(* view.page          "detect" (Home) or "categorize"                      *)
(* view.selectedFile  0 for null, else the chosen file                     *)
(* view.previewUrl    the object URL made for a file, NoUrl for ''         *)
(* view.loading, view.results, view.error   the component's state          *)
(* view.requests      the fetches awaiting their response, each with the   *)
(*                    endpoint and the file of its form data               *)
(* view.lastOp, view.lastArg   history: the operation that ran last and    *)
(*                    its input (the file chosen, the file of the request  *)
(*                    answered)                                            *)
(***************************************************************************)
MaxFiles == 2

MaxDet == 2

MaxRequests == 2

MaxHandlerRequests == 1

ViewPages == {"detect", "categorize"}

Files == 1..MaxFiles

\* a || b on strings: the empty string stands for an absent or empty field.
OrElse(a, b) == IF a = "" THEN b ELSE a

\* a ?? d on an optional number: <<>> is a missing field, <<n>> the value n.
Coalesce(opt, d) == IF opt = <<>> THEN d ELSE opt[1]

\* URL.createObjectURL(file): a URL that designates the file's data.
createObjectURL(f) == [blobOf |-> f]

\* avg_confidence in thousandths (0.9), percentage in hundredths (0.01).
ConfidenceThreshold == 900

PercentageThreshold == 1

ClassNames == {"Background", "WB Wuschereria Bancrofti"}

OptConfidence == {<<>>, <<ConfidenceThreshold>>, <<ConfidenceThreshold + 1>>}

OptPercentage == {<<>>, <<PercentageThreshold>>, <<PercentageThreshold + 1>>}

\* One entry of Object.entries(class_statistics).
ClassEntries(name) ==
  {[name |-> name, avg_confidence |-> a, percentage |-> p] :
     a \in OptConfidence, p \in OptPercentage}

\* The class_statistics tables of a response: keys are distinct, in any order.
AllClassEntries == UNION {ClassEntries(n) : n \in ClassNames}

ClassTables ==
  {<<>>}
  \cup {<<e>> : e \in AllClassEntries}
  \cup {t \in AllClassEntries \X AllClassEntries : t[1].name # t[2].name}

\* The JSON bodies /api/detect answers with.
DetectData ==
  {[success |-> TRUE, error |-> "",
    detection_stats |-> [total_count |-> n],
    detections |-> [i \in 1..k |-> [id |-> i]]] : n \in 0..MaxDet, k \in 0..MaxDet}
  \cup {[success |-> FALSE, error |-> e] : e \in {"", "Invalid image"}}

\* The JSON bodies /api/categorize answers with.
CategorizeData ==
  {[success |-> TRUE, error |-> "", message |-> "", overlay_image |-> "data:image/jpeg",
    segmentation_results |-> [class_statistics |-> t]] : t \in ClassTables}
  \cup {[success |-> ok, error |-> e, message |-> m, overlay_image |-> ""] :
          ok \in BOOLEAN, e \in {"", "Invalid image"}, m \in {"", "No overlay"}}

\* The button's disabled attribute, without the loading flag.
submitDisabled_ignoresLoading(v) == v.selectedFile = 0

\* disabled={!selectedFile || loading} on both pages' submit button.
submitDisabled(v) == v.selectedFile = 0 \/ v.loading

\* handleFileSelect keeping the earlier result and error.
handleFileSelect_keepsResults(f) ==
  /\ view' = IF f # 0
             THEN [view EXCEPT !.selectedFile = f,
                               !.previewUrl = createObjectURL(f),
                               !.lastOp = "select", !.lastArg = f]
             ELSE [view EXCEPT !.lastOp = "selectNone", !.lastArg = 0]
  /\ UNCHANGED <<theme, cam, push, mjpeg, variant, win>>

\* f = 0: the dialog was dismissed, e.target.files[0] is undefined.
handleFileSelect(f) ==
  /\ view' = IF f # 0
             THEN [view EXCEPT !.selectedFile = f,
                               !.previewUrl = createObjectURL(f),
                               !.results = NoResults,
                               !.error = "",
                               !.lastOp = "select", !.lastArg = f]
             ELSE [view EXCEPT !.lastOp = "selectNone", !.lastArg = 0]
  /\ UNCHANGED <<theme, cam, push, mjpeg, variant, win>>

\* The handler up to its await, issuing the fetch even when no file is selected.
SubmitStart_noFileCheck(v, endpoint) ==
  [v EXCEPT !.loading = TRUE,
            !.error = "",
            !.requests = Append(v.requests, [endpoint |-> endpoint, file |-> v.selectedFile]),
            !.lastOp = "submit", !.lastArg = v.selectedFile]

\* handleDetect / handleCategorize up to the await of fetch.
SubmitStart(v, endpoint) ==
  IF v.selectedFile = 0
  THEN [v EXCEPT !.error = "Please select an image first", !.lastOp = "submitNoFile", !.lastArg = 0]
  ELSE [v EXCEPT !.loading = TRUE,
                 !.error = "",
                 !.requests = Append(v.requests, [endpoint |-> endpoint, file |-> v.selectedFile]),
                 !.lastOp = "submit", !.lastArg = v.selectedFile]

RemoveAt(seq, i) == SubSeq(seq, 1, i - 1) \o SubSeq(seq, i + 1, Len(seq))

\* The catch block without the finally: loading stays set.
SubmitThrew_keepsLoading(v, i, message) ==
  [v EXCEPT !.error = message,
            !.requests = RemoveAt(v.requests, i),
            !.lastOp = "transportFail", !.lastArg = v.requests[i].file]

\* The catch and finally blocks: fetch or response.json() threw.
SubmitThrew(v, i, message) ==
  [v EXCEPT !.error = message,
            !.loading = FALSE,
            !.requests = RemoveAt(v.requests, i),
            !.lastOp = "transportFail", !.lastArg = v.requests[i].file]

\* The failure branch clearing the stored result.
SubmitRejected_clearsResults(v, i, message) ==
  [v EXCEPT !.error = message,
            !.results = NoResults,
            !.loading = FALSE,
            !.requests = RemoveAt(v.requests, i),
            !.lastOp = "appFail", !.lastArg = v.requests[i].file]

\* The else branch and finally: the body does not count as a success.
SubmitRejected(v, i, message) ==
  [v EXCEPT !.error = message,
            !.loading = FALSE,
            !.requests = RemoveAt(v.requests, i),
            !.lastOp = "appFail", !.lastArg = v.requests[i].file]

\* The success branch dropping the response of a request whose file is no
\* longer the selected one.
SubmitAccepted_dropsStale(v, i, data) ==
  [v EXCEPT !.results = IF v.requests[i].file = v.selectedFile THEN data ELSE v.results,
            !.loading = FALSE,
            !.requests = RemoveAt(v.requests, i),
            !.lastOp = "success", !.lastArg = v.requests[i].file]

\* The success branch and finally: setResults(data).
SubmitAccepted(v, i, data) ==
  [v EXCEPT !.results = data,
            !.loading = FALSE,
            !.requests = RemoveAt(v.requests, i),
            !.lastOp = "success", !.lastArg = v.requests[i].file]

handleDetect ==
  /\ view.page = "detect"
  /\ view' = SubmitStart(view, "/api/detect")
  /\ UNCHANGED <<theme, cam, push, mjpeg, variant, win>>

handleCategorize ==
  /\ view.page = "categorize"
  /\ view' = SubmitStart(view, "/api/categorize")
  /\ UNCHANGED <<theme, cam, push, mjpeg, variant, win>>

\* handleDetect after its await: request i is answered with data.
detectResponse(i, data) ==
  /\ i <= Len(view.requests)
  /\ view.requests[i].endpoint = "/api/detect"
  /\ view' = IF data.success
             THEN SubmitAccepted(view, i, data)
             ELSE SubmitRejected(view, i, OrElse(data.error, "Detection failed"))
  /\ UNCHANGED <<theme, cam, push, mjpeg, variant, win>>

detectThrows(i) ==
  /\ i <= Len(view.requests)
  /\ view.requests[i].endpoint = "/api/detect"
  /\ view' = SubmitThrew(view, i,
               "Failed to connect to API. Make sure Flask server is running on port 1000")
  /\ UNCHANGED <<theme, cam, push, mjpeg, variant, win>>

\* handleCategorize after its await.
categorizeResponse(i, data) ==
  /\ i <= Len(view.requests)
  /\ view.requests[i].endpoint = "/api/categorize"
  /\ view' = IF data.success /\ data.overlay_image # ""
             THEN SubmitAccepted(view, i, data)
             ELSE SubmitRejected(view, i,
                    OrElse(data.error, OrElse(data.message, "Segmentation failed")))
  /\ UNCHANGED <<theme, cam, push, mjpeg, variant, win>>

categorizeThrows(i) ==
  /\ i <= Len(view.requests)
  /\ view.requests[i].endpoint = "/api/categorize"
  /\ view' = SubmitThrew(view, i, "Failed to connect to API. Make sure the server is running.")
  /\ UNCHANGED <<theme, cam, push, mjpeg, variant, win>>

\* A click on a disabled button dispatches nothing.
clickDisabled ==
  /\ submitDisabled(view)
  /\ view' = [view EXCEPT !.lastOp = "clickDisabled", !.lastArg = 0]
  /\ UNCHANGED <<theme, cam, push, mjpeg, variant, win>>

\* A click on the page's submit button.
clickDetect ==
  /\ ~submitDisabled(view)
  /\ Len(view.requests) < MaxRequests
  /\ handleDetect

clickCategorize ==
  /\ ~submitDisabled(view)
  /\ Len(view.requests) < MaxRequests
  /\ handleCategorize

\* What the results panels show.
\* Home: the "Total Detections" figure.
TotalDetections(v) == v.results.detection_stats.total_count

\* The details list cut to the announced total.
DetectionEntries_cutToTotal(v) ==
  SubSeq(v.results.detections, 1,
         IF v.results.detection_stats.total_count < Len(v.results.detections)
         THEN v.results.detection_stats.total_count ELSE Len(v.results.detections))

\* Home: one entry per element of results.detections.
DetectionEntries(v) == v.results.detections

\* Home: the "Detection Details (n)" heading.
DetectionDetailsCount(v) == Len(v.results.detections)

\* Categorize: classStats.
classStats(v) ==
  IF v.results # NoResults THEN v.results.segmentation_results.class_statistics ELSE <<>>

\* The significance filter with the confidence bound inclusive.
IsDetectedClass_inclusive(e) ==
  IF e.name = "Background" THEN FALSE
  ELSE Coalesce(e.avg_confidence, 0) >= ConfidenceThreshold
       /\ Coalesce(e.percentage, 0) > PercentageThreshold

\* The filter's predicate on one [className, stats] entry.
IsDetectedClass(e) ==
  IF e.name = "Background" THEN FALSE
  ELSE Coalesce(e.avg_confidence, 0) > ConfidenceThreshold
       /\ Coalesce(e.percentage, 0) > PercentageThreshold

detectedClasses(v) == SelectSeq(classStats(v), IsDetectedClass)

InitView ==
  /\ theme = ThemeIdle
  /\ cam = CamIdle
  /\ push = PushIdle
  /\ mjpeg = MjpegIdle
  /\ variant = "mjpeg"
  /\ win = WinIdle
  /\ view \in {ViewMounted(p) : p \in ViewPages}

ViewResponses ==
  \/ \E i \in 1..MaxRequests, data \in DetectData : detectResponse(i, data)
  \/ \E i \in 1..MaxRequests : detectThrows(i)
  \/ \E i \in 1..MaxRequests, data \in CategorizeData : categorizeResponse(i, data)
  \/ \E i \in 1..MaxRequests : categorizeThrows(i)

\* The views as the pages wire them: the handlers run from the controls.
NextView ==
  \/ \E f \in 0..MaxFiles : handleFileSelect(f)
  \/ clickDetect
  \/ clickCategorize
  \/ clickDisabled
  \/ ViewResponses

SpecView == InitView /\ [][NextView]_vars

\* The handlers invoked in any state, as a caller of the functions may.
invokeDetect ==
  /\ Len(view.requests) < MaxHandlerRequests
  /\ handleDetect

invokeCategorize ==
  /\ Len(view.requests) < MaxHandlerRequests
  /\ handleCategorize

NextViewHandlers ==
  \/ \E f \in 0..MaxFiles : handleFileSelect(f)
  \/ invokeDetect
  \/ invokeCategorize
  \/ ViewResponses

SpecViewHandlers == InitView /\ [][NextViewHandlers]_vars

(***************************************************************************)
(*                   CAMERA-FED STREAMING CLIENT                           *)
(*                                                                         *)
(* The page's markup is commented out in the source (it renders a notice   *)
(* only); the model drives the handlers from the controls of that markup:  *)
(* Start (shown while not streaming, disabled while disconnected), Stop    *)
(* and the camera flip (shown while streaming).                            *)
(*                                                                         *)
(* cam.isConnected, cam.isStreaming, cam.facingMode   React state          *)
(* cam.latestResult   0 for null, else the frame_id of the stored result   *)
(* cam.processingRef, cam.frameIdRef   the refs of the same names          *)
(* cam.intervalRef    0 for null, else the id of the interval it holds     *)
(* cam.streamRef      0 for null, else the MediaStream it holds            *)
(* cam.videoSrc       the video element's srcObject (0 for null)           *)
(* cam.timers         the intervals scheduled and not cleared, each with   *)
(*                    the isConnected its callback's closure captured      *)
(* cam.live           the MediaStreams whose tracks were not stopped       *)
(* cam.ids            streams and intervals created so far                 *)
(* cam.starts         history: startStreaming calls begun or scheduled     *)
(* cam.gum            startStreaming calls awaiting getUserMedia, each     *)
(*                    with the facingMode and isConnected of its closure   *)
(* cam.plays          startStreaming calls awaiting video.play()           *)
(* cam.timeouts       pending setTimeout(startStreaming, 100)              *)
(* cam.blobs          toBlob callbacks not yet run                         *)
(* cam.buffers        blob.arrayBuffer() promises not yet resolved         *)
(* cam.sent           history: the frame_id of every process_frame emitted *)
(* cam.unanswered     the process_frame messages emitted and not yet       *)
(*                    answered by detection_result or error                *)
(*                                                                         *)
(* cam.fps            the published rate                                   *)
(* cam.frameTimesRef  the arrival times (ms) of the last detection_result  *)
(*                    events                                               *)
(* cam.clock          the time of the last detection_result event          *)
(*                                                                         *)
(* processingTime is a display statistic no operation reads; it is not     *)
(* part of this state.                                                     *)
(***************************************************************************)
MaxFrames == 2

MaxStarts == 2

\* The milliseconds that may pass between two detection_result events.
CameraElapsed == {0, 100}

\* frameTimesRef keeps the last 10 arrival times.
CameraWindow == 10

\* Math.round(a / b) for a >= 0 and b > 0.
RoundDiv(a, b) == (2 * a + b) \div (2 * b)

\* The rate over a window of arrival times (ms): intervals per second,
\* rounded; Infinity when the window spans no time.
Rate(window) ==
  LET timeSpan == window[Len(window)] - window[1]
  IN IF timeSpan = 0 THEN FpsInfinity
     ELSE FpsOf(RoundDiv((Len(window) - 1) * 1000, timeSpan))

\* push(now) without the shift().
PushTime_noShift(window, now, size) == Append(window, now)

\* push(now), then shift() when the list is longer than size.
PushTime(window, now, size) ==
  IF Len(window) + 1 > size THEN Append(Tail(window), now) ELSE Append(window, now)

OtherFacing(m) == IF m = "user" THEN "environment" ELSE "user"

\* stopStreaming's effect on the component.
stopStreaming(c) ==
  [c EXCEPT !.timers = {t \in c.timers : t.id # c.intervalRef},
            !.intervalRef = 0,
            !.live = c.live \ {c.streamRef},
            !.streamRef = 0,
            !.videoSrc = 0,
            !.isStreaming = FALSE,
            !.latestResult = 0,
            !.fps = FpsOf(0),
            !.frameTimesRef = <<>>,
            !.processingRef = FALSE]

\* The closure a startStreaming created in the current render carries.
CurrentClosure == [facing |-> cam.facingMode, conn |-> cam.isConnected]

StartsLeft == cam.starts < MaxStarts

InitCamera ==
  /\ theme = ThemeIdle
  /\ view = ViewIdle
  /\ cam = CamIdle
  /\ push = PushIdle
  /\ mjpeg = MjpegIdle
  /\ variant = "camera"
  /\ win = WinIdle

connect ==
  /\ ~cam.isConnected
  /\ cam' = [cam EXCEPT !.isConnected = TRUE]
  /\ UNCHANGED <<theme, view, push, mjpeg, variant, win>>

\* The "disconnect" event.  The messages the lost connection carried get no
\* reply any more.
disconnect ==
  /\ cam.isConnected
  /\ cam' = [stopStreaming([cam EXCEPT !.isConnected = FALSE]) EXCEPT !.unanswered = <<>>]
  /\ UNCHANGED <<theme, view, push, mjpeg, variant, win>>

\* The Start button.
clickStart ==
  /\ ~cam.isStreaming
  /\ cam.isConnected
  /\ StartsLeft
  /\ cam' = [cam EXCEPT !.gum = Append(cam.gum, CurrentClosure),
                        !.starts = cam.starts + 1]
  /\ UNCHANGED <<theme, view, push, mjpeg, variant, win>>

\* getUserMedia resolved: the stream is stored and attached, play() awaited.
getUserMediaResolves(i) ==
  /\ i <= Len(cam.gum)
  /\ LET id == cam.ids + 1
     IN cam' = [cam EXCEPT !.gum = RemoveAt(cam.gum, i),
                           !.ids = id,
                           !.live = cam.live \cup {id},
                           !.streamRef = id,
                           !.videoSrc = id,
                           !.plays = Append(cam.plays, [stream |-> id, conn |-> cam.gum[i].conn])]
  /\ UNCHANGED <<theme, view, push, mjpeg, variant, win>>

\* getUserMedia rejected: the catch block only logs.
getUserMediaRejects(i) ==
  /\ i <= Len(cam.gum)
  /\ cam' = [cam EXCEPT !.gum = RemoveAt(cam.gum, i)]
  /\ UNCHANGED <<theme, view, push, mjpeg, variant, win>>

\* play() resolved: setIsStreaming(true) and the 100ms interval.
playResolves(i) ==
  /\ i <= Len(cam.plays)
  /\ cam.videoSrc = cam.plays[i].stream
  /\ LET id == cam.ids + 1
     IN cam' = [cam EXCEPT !.plays = RemoveAt(cam.plays, i),
                           !.ids = id,
                           !.isStreaming = TRUE,
                           !.intervalRef = id,
                           !.timers = cam.timers \cup {[id |-> id, conn |-> cam.plays[i].conn]}]
  /\ UNCHANGED <<theme, view, push, mjpeg, variant, win>>

\* play() rejected (the source was replaced or removed, or playback refused).
playRejects(i) ==
  /\ i <= Len(cam.plays)
  /\ cam' = [cam EXCEPT !.plays = RemoveAt(cam.plays, i)]
  /\ UNCHANGED <<theme, view, push, mjpeg, variant, win>>

\* The Stop button.
clickStop ==
  /\ cam.isStreaming
  /\ cam' = stopStreaming(cam)
  /\ UNCHANGED <<theme, view, push, mjpeg, variant, win>>

\* The flip button: the delayed startStreaming is the one of this render.
toggleCamera ==
  /\ cam.isStreaming
  /\ StartsLeft
  /\ cam' = [stopStreaming(cam) EXCEPT !.facingMode = OtherFacing(cam.facingMode),
                                      !.timeouts = Append(cam.timeouts, CurrentClosure),
                                      !.starts = cam.starts + 1]
  /\ UNCHANGED <<theme, view, push, mjpeg, variant, win>>

\* The timeout set by toggleCamera fires.
timeoutFires(i) ==
  /\ i <= Len(cam.timeouts)
  /\ cam' = [cam EXCEPT !.timeouts = RemoveAt(cam.timeouts, i),
                        !.gum = Append(cam.gum, cam.timeouts[i])]
  /\ UNCHANGED <<theme, view, push, mjpeg, variant, win>>

\* captureAndSendFrame's early returns, for the interval timer t: the socket,
\* the closure's isConnected, the guard flag, the video's readyState.
captureGuard(c, t) ==
  /\ t.conn
  /\ ~c.processingRef
  /\ c.videoSrc # 0

\* An interval timer fires and captureAndSendFrame gets as far as toBlob.
captureAndSendFrame(t) ==
  /\ t \in cam.timers
  /\ captureGuard(cam, t)
  /\ cam.frameIdRef + cam.blobs < MaxFrames
  /\ cam' = [cam EXCEPT !.blobs = cam.blobs + 1]
  /\ UNCHANGED <<theme, view, push, mjpeg, variant, win>>

\* toBlob's callback with a blob: the guard is set and the frame id advanced.
toBlobCallback ==
  /\ cam.blobs > 0
  /\ cam' = [cam EXCEPT !.blobs = cam.blobs - 1,
                        !.processingRef = TRUE,
                        !.frameIdRef = cam.frameIdRef + 1,
                        !.buffers = cam.buffers + 1]
  /\ UNCHANGED <<theme, view, push, mjpeg, variant, win>>

\* toBlob's callback with null: it returns at once.
toBlobFails ==
  /\ cam.blobs > 0
  /\ cam' = [cam EXCEPT !.blobs = cam.blobs - 1]
  /\ UNCHANGED <<theme, view, push, mjpeg, variant, win>>

\* arrayBuffer() resolved: process_frame is emitted with the frame id the ref
\* holds now.
emitProcessFrame ==
  /\ cam.buffers > 0
  /\ cam' = [cam EXCEPT !.buffers = cam.buffers - 1,
                        !.sent = Append(cam.sent, cam.frameIdRef),
                        !.unanswered = Append(cam.unanswered, cam.frameIdRef)]
  /\ UNCHANGED <<theme, view, push, mjpeg, variant, win>>

\* The "detection_result" event answering message i, d ms after the event
\* before it.
detection_result(i, d) ==
  /\ cam.isConnected
  /\ i <= Len(cam.unanswered)
  /\ LET now == cam.clock + d
         times == PushTime(cam.frameTimesRef, now, CameraWindow)
     IN cam' = [cam EXCEPT !.unanswered = RemoveAt(cam.unanswered, i),
                           !.clock = now,
                           !.frameTimesRef = times,
                           !.fps = IF Len(times) > 1 THEN Rate(times) ELSE cam.fps,
                           !.latestResult = cam.unanswered[i],
                           !.processingRef = FALSE]
  /\ UNCHANGED <<theme, view, push, mjpeg, variant, win>>

\* The "error" event answering message i.
socketError(i) ==
  /\ cam.isConnected
  /\ i <= Len(cam.unanswered)
  /\ cam' = [cam EXCEPT !.unanswered = RemoveAt(cam.unanswered, i),
                        !.processingRef = FALSE]
  /\ UNCHANGED <<theme, view, push, mjpeg, variant, win>>

NextCamera ==
  \/ connect
  \/ disconnect
  \/ clickStart
  \/ \E i \in 1..MaxStarts : getUserMediaResolves(i)
  \/ \E i \in 1..MaxStarts : getUserMediaRejects(i)
  \/ \E i \in 1..MaxStarts : playResolves(i)
  \/ \E i \in 1..MaxStarts : playRejects(i)
  \/ clickStop
  \/ toggleCamera
  \/ \E i \in 1..MaxStarts : timeoutFires(i)
  \/ \E t \in cam.timers : captureAndSendFrame(t)
  \/ toBlobCallback
  \/ toBlobFails
  \/ emitProcessFrame
  \/ \E i \in 1..MaxFrames, d \in CameraElapsed : detection_result(i, d)
  \/ \E i \in 1..MaxFrames : socketError(i)

SpecCamera == InitCamera /\ [][NextCamera]_vars

(***************************************************************************)
(*                     PUSH STREAMING CLIENT                               *)
(*                                                                         *)
(* push.isConnected, push.isStreaming, push.currentFrame, push.frameNumber,*)
(* push.metadata, push.fps   React state                                   *)
(* push.streamInfo      whether a StreamInfo is stored                     *)
(* push.frameTimestamps, push.lastFpsUpdate   the refs of the same names   *)
(* push.clock           the time of the last frame event                   *)
(* push.received        frame events delivered so far; event k carries     *)
(*                      image k, frame_number k and metadata k             *)
(* push.emitted         history: the messages emitted on the socket        *)
(* push.open            history: the start_stream messages emitted since   *)
(*                      the last stop_stream, stream_stopped, stream_error *)
(*                      or disconnect                                      *)
(* push.lastOp          history: the handler that ran last                 *)
(*                                                                         *)
(* The backend is not part of the repository: any of its events may be     *)
(* delivered whenever the socket is connected.                             *)
(***************************************************************************)
MaxEmitted == 3

\* The milliseconds that may pass between two frame events.
PushElapsed == {0, 300, 600}

\* frameTimestamps keeps the last 30 arrival times.
PushWindow == 30

\* The fps figure is refreshed when more than this many ms have passed.
FpsUpdateInterval == 500

InitPush ==
  /\ theme = ThemeIdle
  /\ view = ViewIdle
  /\ cam = CamIdle
  /\ push = PushIdle
  /\ mjpeg = MjpegIdle
  /\ variant = "push"
  /\ win = WinIdle

pushConnect ==
  /\ ~push.isConnected
  /\ push' = [push EXCEPT !.isConnected = TRUE, !.lastOp = "connect"]
  /\ UNCHANGED <<theme, view, cam, mjpeg, variant, win>>

\* The "disconnect" event.
pushDisconnect ==
  /\ push.isConnected
  /\ push' = [push EXCEPT !.isConnected = FALSE,
                          !.isStreaming = FALSE,
                          !.open = 0,
                          !.lastOp = "disconnect"]
  /\ UNCHANGED <<theme, view, cam, mjpeg, variant, win>>

\* The reconnect button: socket.disconnect() raises "disconnect" on a
\* connected socket; socket.connect() then leads to a later "connect".
reconnect ==
  /\ push.isConnected
  /\ push' = [push EXCEPT !.isConnected = FALSE,
                          !.isStreaming = FALSE,
                          !.open = 0,
                          !.lastOp = "reconnect"]
  /\ UNCHANGED <<theme, view, cam, mjpeg, variant, win>>

\* startStream up to and including the emit, with the early return.
startStream(p) ==
  IF ~p.isConnected THEN [p EXCEPT !.lastOp = "startIgnored"]
  ELSE [p EXCEPT !.emitted = Append(p.emitted, "start_stream"),
                 !.open = p.open + 1,
                 !.lastOp = "start"]

\* The Start Stream button: shown while not streaming, disabled while
\* disconnected.
clickStartStream ==
  /\ ~push.isStreaming
  /\ push.isConnected
  /\ Len(push.emitted) < MaxEmitted
  /\ push' = startStream(push)
  /\ UNCHANGED <<theme, view, cam, mjpeg, variant, win>>

\* stopStream leaving the metadata of the last frame in place.
stopStream_keepsMetadata(p) ==
  [p EXCEPT !.emitted = Append(p.emitted, "stop_stream"),
            !.open = 0,
            !.isStreaming = FALSE,
            !.currentFrame = 0,
            !.frameNumber = 0,
            !.fps = FpsOf(0),
            !.frameTimestamps = <<>>,
            !.lastOp = "stop"]

\* stopStream leaving the rate counters as they were.
stopStream_keepsCounters(p) ==
  [p EXCEPT !.emitted = Append(p.emitted, "stop_stream"),
            !.open = 0,
            !.isStreaming = FALSE,
            !.currentFrame = 0,
            !.metadata = 0,
            !.frameNumber = 0,
            !.lastOp = "stop"]

\* stopStream; the socket exists once the page is mounted.
stopStream(p) ==
  [p EXCEPT !.emitted = Append(p.emitted, "stop_stream"),
            !.open = 0,
            !.isStreaming = FALSE,
            !.currentFrame = 0,
            !.metadata = 0,
            !.frameNumber = 0,
            !.fps = FpsOf(0),
            !.frameTimestamps = <<>>,
            !.lastOp = "stop"]

\* The Stop Stream button: shown while streaming.
clickStopStream ==
  /\ push.isStreaming
  /\ Len(push.emitted) < MaxEmitted
  /\ push' = stopStream(push)
  /\ UNCHANGED <<theme, view, cam, mjpeg, variant, win>>

stream_started ==
  /\ push.isConnected
  /\ push' = [push EXCEPT !.streamInfo = TRUE,
                          !.isStreaming = TRUE,
                          !.lastOp = "stream_started"]
  /\ UNCHANGED <<theme, view, cam, mjpeg, variant, win>>

stream_stopped ==
  /\ push.isConnected
  /\ push' = [push EXCEPT !.isStreaming = FALSE,
                          !.streamInfo = FALSE,
                          !.open = 0,
                          !.lastOp = "stream_stopped"]
  /\ UNCHANGED <<theme, view, cam, mjpeg, variant, win>>

\* The "frame" event, d ms after the frame before it.
frame(d) ==
  /\ push.isConnected
  /\ push.received < MaxFrames
  /\ LET k == push.received + 1
         now == push.clock + d
         times == PushTime(push.frameTimestamps, now, PushWindow)
         due == \/ push.lastFpsUpdate = <<>>
                \/ now - push.lastFpsUpdate[1] > FpsUpdateInterval
         update == due /\ Len(times) > 1
     IN push' = [push EXCEPT !.received = k,
                             !.currentFrame = k,
                             !.frameNumber = k,
                             !.metadata = k,
                             !.clock = now,
                             !.frameTimestamps = times,
                             !.fps = IF update THEN Rate(times) ELSE push.fps,
                             !.lastFpsUpdate = IF update THEN <<now>> ELSE push.lastFpsUpdate,
                             !.lastOp = "frame"]
  /\ UNCHANGED <<theme, view, cam, mjpeg, variant, win>>

stream_error ==
  /\ push.isConnected
  /\ push' = [push EXCEPT !.isStreaming = FALSE,
                          !.open = 0,
                          !.lastOp = "stream_error"]
  /\ UNCHANGED <<theme, view, cam, mjpeg, variant, win>>

NextPush ==
  \/ pushConnect
  \/ pushDisconnect
  \/ reconnect
  \/ clickStartStream
  \/ clickStopStream
  \/ stream_started
  \/ stream_stopped
  \/ \E d \in PushElapsed : frame(d)
  \/ stream_error

SpecPush == InitPush /\ [][NextPush]_vars

(***************************************************************************)
(*                           MJPEG PAGE                                    *)
(*                                                                         *)
(* mjpeg.isStreaming, mjpeg.isLoading, mjpeg.streamError, mjpeg.streamUrl  *)
(*                  React state ("" for a null streamError)                *)
(* mjpeg.settings   streamType, confidence and alpha (hundredths), source  *)
(* mjpeg.lastOp     history: the handler that ran last                     *)
(*                                                                         *)
(* The image element is mounted exactly while isStreaming; its load and    *)
(* error events may be raised whenever it is mounted.                      *)
(***************************************************************************)
StreamTypes == {"yolo", "unet", "combined"}

Confidences == {25, 50}

Alphas == {40, 90}

Sources == {"0", "rtsp://cam"}

MjpegSettings ==
  [streamType : StreamTypes, confidence : Confidences, alpha : Alphas, source : Sources]

Digits == <<"0", "1", "2", "3", "4", "5", "6", "7", "8", "9">>

\* Number.prototype.toString for h hundredths, 0 < h < 100: 25 is "0.25",
\* 40 is "0.4".
HundredthsToString(h) ==
  "0." \o Digits[(h \div 10) + 1] \o (IF h % 10 = 0 THEN "" ELSE Digits[(h % 10) + 1])

\* URLSearchParams' encoding of a source value.
EncodeParam(v) == IF v = "rtsp://cam" THEN "rtsp%3A%2F%2Fcam" ELSE v

\* getMjpegUrl setting conf for every stream type.
getMjpegUrl_alwaysConf(st) ==
  LET withSource == "source=" \o EncodeParam(st.source)
      withConf == withSource \o "&conf=" \o HundredthsToString(st.confidence)
      params == IF st.streamType \in {"unet", "combined"}
                THEN withConf \o "&alpha=" \o HundredthsToString(st.alpha)
                ELSE withConf
      endpoint == IF st.streamType = "yolo" THEN "detect"
                  ELSE IF st.streamType = "unet" THEN "segment" ELSE "combined"
  IN "/api/stream/" \o endpoint \o "?" \o params

getMjpegUrl(st) ==
  LET withSource == "source=" \o EncodeParam(st.source)
      withConf == IF st.streamType \in {"yolo", "combined"}
                  THEN withSource \o "&conf=" \o HundredthsToString(st.confidence)
                  ELSE withSource
      params == IF st.streamType \in {"unet", "combined"}
                THEN withConf \o "&alpha=" \o HundredthsToString(st.alpha)
                ELSE withConf
      endpoint == IF st.streamType = "yolo" THEN "detect"
                  ELSE IF st.streamType = "unet" THEN "segment" ELSE "combined"
  IN "/api/stream/" \o endpoint \o "?" \o params

InitMjpeg ==
  /\ theme = ThemeIdle
  /\ view = ViewIdle
  /\ cam = CamIdle
  /\ push = PushIdle
  /\ mjpeg = MjpegIdle
  /\ variant = "mjpeg"
  /\ win = WinIdle

\* The settings controls, disabled while streaming.
changeSettings(st) ==
  /\ ~mjpeg.isStreaming
  /\ st # mjpeg.settings
  /\ mjpeg' = [mjpeg EXCEPT !.settings = st, !.lastOp = "settings"]
  /\ UNCHANGED <<theme, view, cam, push, variant, win>>

\* The Start Stream button (shown while not streaming): startStream.
mjpegStart ==
  /\ ~mjpeg.isStreaming
  /\ mjpeg' = [mjpeg EXCEPT !.streamError = "",
                            !.isLoading = TRUE,
                            !.streamUrl = getMjpegUrl(mjpeg.settings),
                            !.isStreaming = TRUE,
                            !.lastOp = "start"]
  /\ UNCHANGED <<theme, view, cam, push, variant, win>>

\* The Stop Stream button and the error overlay's Close button: stopStream.
mjpegStop ==
  /\ mjpeg.isStreaming
  /\ mjpeg' = [mjpeg EXCEPT !.isStreaming = FALSE,
                            !.isLoading = FALSE,
                            !.streamError = "",
                            !.streamUrl = NoStreamUrl,
                            !.lastOp = "stop"]
  /\ UNCHANGED <<theme, view, cam, push, variant, win>>

handleImageLoad ==
  /\ mjpeg.isStreaming
  /\ mjpeg' = [mjpeg EXCEPT !.isLoading = FALSE,
                            !.streamError = "",
                            !.lastOp = "imageLoad"]
  /\ UNCHANGED <<theme, view, cam, push, variant, win>>

\* handleImageError leaving the loading flag set.
handleImageError_keepsLoading ==
  /\ mjpeg.isStreaming
  /\ mjpeg' = [mjpeg EXCEPT
                 !.streamError = "Failed to connect to stream. Please check if the Flask server is running.",
                 !.lastOp = "imageError"]
  /\ UNCHANGED <<theme, view, cam, push, variant, win>>

handleImageError ==
  /\ mjpeg.isStreaming
  /\ mjpeg' = [mjpeg EXCEPT
                 !.streamError = "Failed to connect to stream. Please check if the Flask server is running.",
                 !.isLoading = FALSE,
                 !.lastOp = "imageError"]
  /\ UNCHANGED <<theme, view, cam, push, variant, win>>

NextMjpeg ==
  \/ \E st \in MjpegSettings : changeSettings(st)
  \/ mjpegStart
  \/ mjpegStop
  \/ handleImageLoad
  \/ handleImageError

SpecMjpeg == InitMjpeg /\ [][NextMjpeg]_vars

(***************************************************************************)
(*               THE REAL-TIME PAGE IN ANY OF ITS VARIANTS                 *)
(***************************************************************************)
Variants == {"camera", "push", "mjpeg"}

InitStreaming ==
  /\ theme = ThemeIdle
  /\ view = ViewIdle
  /\ cam = CamIdle
  /\ push = PushIdle
  /\ mjpeg = MjpegIdle
  /\ variant \in Variants
  /\ win = WinIdle

\* Only the mounted variant's handlers run.
NextStreaming ==
  \/ variant = "camera" /\ connect
  \/ variant = "camera" /\ disconnect
  \/ variant = "camera" /\ clickStart
  \/ variant = "camera" /\ \E i \in 1..MaxStarts : getUserMediaResolves(i)
  \/ variant = "camera" /\ \E i \in 1..MaxStarts : getUserMediaRejects(i)
  \/ variant = "camera" /\ \E i \in 1..MaxStarts : playResolves(i)
  \/ variant = "camera" /\ \E i \in 1..MaxStarts : playRejects(i)
  \/ variant = "camera" /\ clickStop
  \/ variant = "camera" /\ toggleCamera
  \/ variant = "camera" /\ \E i \in 1..MaxStarts : timeoutFires(i)
  \/ variant = "camera" /\ \E t \in cam.timers : captureAndSendFrame(t)
  \/ variant = "camera" /\ toBlobCallback
  \/ variant = "camera" /\ toBlobFails
  \/ variant = "camera" /\ emitProcessFrame
  \/ variant = "camera" /\ \E i \in 1..MaxFrames, d \in CameraElapsed : detection_result(i, d)
  \/ variant = "camera" /\ \E i \in 1..MaxFrames : socketError(i)
  \/ variant = "push" /\ pushConnect
  \/ variant = "push" /\ pushDisconnect
  \/ variant = "push" /\ reconnect
  \/ variant = "push" /\ clickStartStream
  \/ variant = "push" /\ clickStopStream
  \/ variant = "push" /\ stream_started
  \/ variant = "push" /\ stream_stopped
  \/ variant = "push" /\ \E d \in PushElapsed : frame(d)
  \/ variant = "push" /\ stream_error
  \/ variant = "mjpeg" /\ \E st \in MjpegSettings : changeSettings(st)
  \/ variant = "mjpeg" /\ mjpegStart
  \/ variant = "mjpeg" /\ mjpegStop
  \/ variant = "mjpeg" /\ handleImageLoad
  \/ variant = "mjpeg" /\ handleImageError

SpecStreaming == InitStreaming /\ [][NextStreaming]_vars

(***************************************************************************)
(*                    THE ARRIVAL-TIME WINDOW                              *)
(*                                                                         *)
(* Both socket clients keep the arrival times of their result events in a  *)
(* list: push(now), then shift() when the list got longer than its size    *)
(* (10 in the camera-fed client, 30 in the push client).  This             *)
(* specification applies that code to runs of arrivals long enough to fill *)
(* either window, the arrivals a fixed number of ms apart.                 *)
(***************************************************************************)
MaxArrivals == 32

WindowSteps == {0, 1, 100}

\* The size of the mounted variant's window.
WindowSize == IF variant = "camera" THEN CameraWindow ELSE PushWindow

InitWindow ==
  /\ theme = ThemeIdle
  /\ view = ViewIdle
  /\ cam = CamIdle
  /\ push = PushIdle
  /\ mjpeg = MjpegIdle
  /\ variant \in {"camera", "push"}
  /\ win \in {[WinIdle EXCEPT !.step = s] : s \in WindowSteps}

\* A result event arrives: const now = Date.now(), push, shift.
arrival ==
  /\ Len(win.log) < MaxArrivals
  /\ LET now == (IF win.log = <<>> THEN 0 ELSE win.log[Len(win.log)]) + win.step
     IN win' = [win EXCEPT !.list = PushTime(win.list, now, WindowSize),
                           !.log = Append(win.log, now)]
  /\ UNCHANGED <<theme, view, cam, push, mjpeg, variant>>

NextWindow == arrival

SpecWindow == InitWindow /\ [][NextWindow]_vars

(***************************************************************************)
(*                         PROPERTIES: CAMERA                              *)
(***************************************************************************)

\* C1 (SpecCamera): at most one process_frame round trip is in flight at any
\* time: the messages emitted and not yet answered by detection_result or
\* error never number more than one, whatever the interleaving of timer
\* ticks, toBlob callbacks, replies, stop and restart.
C1_OneFrameInFlight == Len(cam.unanswered) <= 1

\* C13 (SpecStreaming): in the socket-based clients a streaming client is a
\* connected one, in every reachable state, whatever the interleaving of
\* connect, disconnect, reconnect, start with its camera acquisition, stop and
\* camera toggle.
C13_StreamingImpliesConnected ==
  /\ cam.isStreaming => cam.isConnected
  /\ push.isStreaming => push.isConnected

\* A stopStreaming call of the camera-fed client: the Stop button and the
\* camera flip clear the interval the ref holds, the disconnect handler runs
\* it on every disconnect.
CameraStopStep ==
  \/ cam.intervalRef # 0 /\ cam'.intervalRef = 0
  \/ cam.isConnected /\ ~cam'.isConnected

\* C17 (SpecCamera): after stopStreaming returns no capture interval is still
\* scheduled and no acquired MediaStream is still live, whatever starts,
\* repeated starts, camera toggles and stops came before.
C17_StopReleasesAll ==
  [][CameraStopStep => (cam'.timers = {} /\ cam'.live = {})]_vars

(***************************************************************************)
(*                    PROPERTIES: STREAMING VARIANTS                       *)
(***************************************************************************)

\* C12 (SpecStreaming): in every variant isStreaming becomes true only in a
\* step in which the backend acknowledges: a stream_started event (push), the
\* image's load event, that is the first delivered frame (MJPEG), a reply of
\* the backend (camera-fed); never in the step of the Start button.
C12_StreamingOnlyOnAck ==
  [][/\ (~push.isStreaming /\ push'.isStreaming) => push'.lastOp = "stream_started"
     /\ (~mjpeg.isStreaming /\ mjpeg'.isStreaming) => mjpeg'.lastOp = "imageLoad"
     /\ (~cam.isStreaming /\ cam'.isStreaming)
          => Len(cam'.unanswered) < Len(cam.unanswered)]_vars

\* C14 (SpecStreaming): immediately after a stop action the client is not
\* streaming, the displayed frame and metadata are cleared and the rate
\* counters are reset: latestResult, fps and frameTimesRef in the camera-fed
\* variant; currentFrame, metadata, frameNumber, fps and frameTimestamps in the
\* push variant, which also emits stop_stream; the stream URL, the loading
\* flag and the error in the MJPEG variant.
C14_StopClears ==
  [][/\ (cam.intervalRef # 0 /\ cam'.intervalRef = 0)
          => /\ ~cam'.isStreaming
             /\ cam'.latestResult = 0
             /\ cam'.fps = FpsOf(0)
             /\ cam'.frameTimesRef = <<>>
     /\ (push'.lastOp = "stop" /\ push' # push)
          => /\ ~push'.isStreaming
             /\ push'.currentFrame = 0
             /\ push'.metadata = 0
             /\ push'.frameNumber = 0
             /\ push'.fps = FpsOf(0)
             /\ push'.frameTimestamps = <<>>
             /\ push'.emitted = Append(push.emitted, "stop_stream")
     /\ (mjpeg'.lastOp = "stop" /\ mjpeg' # mjpeg)
          => /\ ~mjpeg'.isStreaming
             /\ ~mjpeg'.isLoading
             /\ mjpeg'.streamError = ""
             /\ mjpeg'.streamUrl = NoStreamUrl]_vars

\* The push client was stopped after two frames from which an fps figure had
\* been published.
C14_Witness ==
  /\ variant = "push"
  /\ push.lastOp = "stop"
  /\ push.received = 2
  /\ push.lastFpsUpdate # <<>>
  /\ push.fps = FpsOf(0)
  /\ push.frameTimestamps = <<>>
  /\ push.currentFrame = 0
  /\ push.emitted[Len(push.emitted)] = "stop_stream"

\* C15 (SpecStreaming): a stream error (the stream_error event, a failed load
\* of the MJPEG image) leaves the session not streaming, with the Start
\* button shown and usable.
C15_ErrorLeavesStreaming ==
  /\ push.lastOp = "stream_error" => (~push.isStreaming /\ push.isConnected)
  /\ mjpeg.lastOp = "imageError" => ~mjpeg.isStreaming

\* C16 (SpecPush): no overlapping sessions on one socket: of the start_stream
\* messages emitted, at most one has no stop_stream, stream_stopped,
\* stream_error or disconnect after it.
C16_NoOverlappingSessions == push.open <= 1

(***************************************************************************)
(*                         PROPERTIES: VIEWS                               *)
(***************************************************************************)

\* A step in which a pending request is answered.
ResponseStep == Len(view'.requests) < Len(view.requests)

\* C18 (SpecView): no failure is fatal: after a submit finishes, by success,
\* by a failure response or by a throw, loading is false and, with a file
\* still selected, the submit button is enabled.
C18_RetryPossible ==
  [][(ResponseStep /\ view'.lastOp \in {"success", "appFail", "transportFail"})
       => /\ ~view'.loading
          /\ view'.selectedFile = view.selectedFile
          /\ view'.selectedFile # 0 => ~submitDisabled(view')]_vars

\* A request failed by a throw and the file is still selected.
C18_Witness ==
  /\ view.lastOp = "transportFail"
  /\ view.selectedFile # 0
  /\ view.error # ""
  /\ ~view.loading
  /\ ~submitDisabled(view)

\* C19 (SpecView): a request in flight is never cancelled: its successful
\* response is applied and becomes the displayed result, also when the
\* selected file is no longer the one the request carried.
C19_LateResponseApplied ==
  [][(ResponseStep /\ view'.lastOp = "success")
       => /\ view'.results # NoResults
          /\ view'.results.success
          /\ view'.selectedFile = view.selectedFile
          /\ view'.previewUrl = view.previewUrl]_vars

\* A success arrived for a file other than the one selected meanwhile, after
\* that selection had cleared the results.
C19_Witness ==
  /\ view.lastOp = "success"
  /\ view.selectedFile # 0
  /\ view.lastArg # view.selectedFile
  /\ view.results # NoResults
  /\ view.previewUrl = createObjectURL(view.selectedFile)

\* C20 (SpecView): selecting a new file in any state puts the view into
\* FileSelected: the new file is selected, there is no result, no error, and
\* the view is not loading.
C20_SelectReenters ==
  view.lastOp = "select"
    => /\ view.selectedFile = view.lastArg
       /\ view.results = NoResults
       /\ view.error = ""
       /\ ~view.loading

\* C2 (SpecView): in each single-shot view at most one HTTP request is
\* outstanding at any time, and while the view is loading exactly the one
\* request that set the flag is; a submit attempted while loading issues no
\* request and changes no state of the component, whatever file selections
\* and submits came before.
C2_AtMostOneRequest ==
  /\ [](/\ Len(view.requests) <= 1
        /\ view.loading => Len(view.requests) = 1)
  /\ [][(view.loading /\ view'.lastOp \in {"submit", "submitNoFile", "clickDisabled"})
          => /\ view'.requests = view.requests
             /\ view'.selectedFile = view.selectedFile
             /\ view'.previewUrl = view.previewUrl
             /\ view'.loading = view.loading
             /\ view'.results = view.results
             /\ view'.error = view.error]_vars

\* A submit was attempted while a request was in flight.
C2_Witness ==
  /\ view.lastOp = "clickDisabled"
  /\ view.loading
  /\ Len(view.requests) = 1

\* C3 (SpecViewHandlers): a submit with no selected file issues no request,
\* sets the error to 'Please select an image first' and leaves selectedFile,
\* results and loading as they were.
C3_SubmitWithoutFile ==
  [][(view.selectedFile = 0 /\ view'.lastOp \in {"submit", "submitNoFile"})
       => /\ view'.requests = view.requests
          /\ view'.error = "Please select an image first"
          /\ view'.selectedFile = view.selectedFile
          /\ view'.results = view.results
          /\ view'.loading = view.loading]_vars

\* The handler ran with no file selected.
C3_Witness ==
  /\ view.lastOp = "submitNoFile"
  /\ view.selectedFile = 0
  /\ view.error = "Please select an image first"
  /\ view.requests = <<>>

\* C4 (SpecView): selecting a file, in any state, makes it the selected file,
\* makes the preview URL the one created for it, and sets results to null and
\* error to empty; loading and the request in flight are not touched.
C4_SelectReplaces ==
  [][view'.lastOp = "select"
       => /\ view'.lastArg \in Files
          /\ view'.selectedFile = view'.lastArg
          /\ view'.previewUrl = createObjectURL(view'.lastArg)
          /\ view'.results = NoResults
          /\ view'.error = ""
          /\ view'.loading = view.loading
          /\ view'.requests = view.requests]_vars

\* A different file was selected while the earlier file's request was unresolved.
C4_Witness ==
  /\ view.lastOp = "select"
  /\ view.loading
  /\ Len(view.requests) = 1
  /\ view.requests[1].file # view.selectedFile
  /\ view.previewUrl = createObjectURL(view.selectedFile)

\* C5 (SpecView): when a request fails, by a throw of fetch or of the JSON
\* parsing or by a body that does not count as a success, the view sets a
\* non-empty error message and the stored result stays exactly as it was;
\* the submit that issued the request left the stored result as it was too.
C5_FailureKeepsResult ==
  [][/\ view'.lastOp \in {"transportFail", "appFail"}
          => /\ view'.error # ""
             /\ view'.results = view.results
     /\ view'.lastOp = "submit" => view'.results = view.results]_vars

\* A retry failed while the result of the earlier success was displayed.
C5_Witness ==
  /\ view.lastOp \in {"transportFail", "appFail"}
  /\ view.results # NoResults
  /\ view.error # ""

ListedClasses(v) ==
  {detectedClasses(v)[i].name : i \in 1..Len(detectedClasses(v))}

\* C7 (SpecView): for any class_statistics table, the 'detected classes' list
\* holds exactly the classes not named 'Background' whose avg_confidence is
\* present and above 0.9 and whose percentage is present and above 0.01.
C7_DetectedClasses ==
  (view.page = "categorize" /\ view.results # NoResults)
    => LET table == view.results.segmentation_results.class_statistics
       IN ListedClasses(view) =
            {table[i].name : i \in
               {j \in 1..Len(table) :
                  /\ table[j].name # "Background"
                  /\ table[j].avg_confidence # <<>>
                  /\ table[j].avg_confidence[1] > ConfidenceThreshold
                  /\ table[j].percentage # <<>>
                  /\ table[j].percentage[1] > PercentageThreshold}}

\* A table in which Background passes both thresholds and is not listed, while
\* the other class is.
C7_Witness ==
  /\ view.page = "categorize"
  /\ view.results # NoResults
  /\ Len(classStats(view)) = 2
  /\ \E i \in 1..2 :
       /\ classStats(view)[i].name = "Background"
       /\ classStats(view)[i].avg_confidence = <<ConfidenceThreshold + 1>>
       /\ classStats(view)[i].percentage = <<PercentageThreshold + 1>>
  /\ ListedClasses(view) = {"WB Wuschereria Bancrofti"}

(***************************************************************************)
(*                         PROPERTIES: THEME                               *)
(***************************************************************************)

\* C8 (SpecTheme): after a theme toggle, once its effects have run, the root
\* carries the class "dark" exactly when the theme store's isDarkMode is true,
\* and the page renders with that same flag.
C8_RootMatchesStore ==
  (theme.phase = "ready" /\ theme.since = "toggled")
    => /\ theme.rootDark = theme.isDarkMode
       /\ theme.page = "home" => theme.homeDark = theme.isDarkMode

\* C9 (SpecTheme): the theme choice survives a reload: after a toggle and a
\* reload with storage accessible, the initial theme flag and the root's class
\* after initialisation equal the toggled choice, whatever the OS preference.
C9_ChoiceSurvivesReload ==
  (theme.phase = "ready" /\ theme.since = "reloaded" /\ theme.access = "ok")
    => /\ theme.isDarkMode = (theme.choice = "dark")
       /\ theme.rootDark = (theme.choice = "dark")

\* C11 (SpecTheme): every change of the store's flag writes through: a toggle
\* of the store flips the flag and the root's class with it; with accessible
\* storage the stored value is then 'dark' exactly when the flag is true and
\* 'light' otherwise; when the write throws the stored value stays and no
\* exception escapes.  Once the effects have run, accessible storage holds
\* the flag's mode.
C11_WriteThrough ==
  /\ [](theme.phase = "ready"
         => /\ ~theme.uncaught
            /\ theme.access = "ok" => theme.stored = ModeName(theme.isDarkMode))
  /\ [][(/\ theme.phase = "ready"
          /\ theme'.since = "toggled"
          /\ theme'.homeDark = theme.homeDark
          /\ theme' # theme)
          => /\ theme'.isDarkMode = ~theme.isDarkMode
             /\ theme'.rootDark = theme'.isDarkMode
             /\ theme.access = "ok" => theme'.stored = ModeName(theme'.isDarkMode)
             /\ theme.access # "ok" => theme'.stored = theme.stored
             /\ ~theme'.uncaught]_vars

\* The store was toggled to dark while the storage write throws.
C11_Witness ==
  /\ theme.phase = "ready"
  /\ theme.since = "toggled"
  /\ theme.page # "home"
  /\ theme.access = "readonly"
  /\ theme.stored = "null"
  /\ theme.media = "light"
  /\ theme.isDarkMode
  /\ theme.rootDark

\* C10 (SpecTheme): on initialisation the store's flag is true when the
\* persisted value is 'dark', false when it is 'light', and otherwise (nothing
\* usable persisted, or storage throws on access) what the
\* prefers-color-scheme: dark media query reports.
C10_InitialFlag ==
  theme.phase = "effects"
    => LET readable == theme.access # "blocked"
       IN /\ (readable /\ theme.stored = "dark") => theme.isDarkMode
          /\ (readable /\ theme.stored = "light") => ~theme.isDarkMode
          /\ (~readable \/ theme.stored \notin {"dark", "light"})
               => theme.isDarkMode = (theme.media = "dark")

\* Storage holds 'light' but throws on access, the OS prefers dark: dark.
C10_Witness ==
  /\ theme.phase = "effects"
  /\ theme.access = "blocked"
  /\ theme.stored = "light"
  /\ theme.media = "dark"
  /\ theme.isDarkMode

(***************************************************************************)
(*              PROPERTIES: FRAME DATA AND ARRIVAL WINDOW                  *)
(***************************************************************************)

\* C21 (SpecPush): the push client keeps only the latest frame: the displayed
\* image, the frame number and the metadata are either all cleared or all
\* taken from the same frame event, the one received last.
C21_LatestFrameOnly ==
  \/ /\ push.currentFrame = 0
     /\ push.frameNumber = 0
     /\ push.metadata = 0
  \/ /\ push.received > 0
     /\ push.currentFrame = push.received
     /\ push.frameNumber = push.received
     /\ push.metadata = push.received

\* A second frame event replaced the first in all three places.
C21_Witness ==
  /\ push.lastOp = "frame"
  /\ push.received = 2
  /\ push.currentFrame = 2
  /\ push.frameNumber = 2
  /\ push.metadata = 2

\* C22 (SpecWindow): the FPS window is bounded: after every arrival the list
\* of arrival times holds at most N entries (10 in the camera-fed client, 30
\* in the push client), namely the N most recent arrival times in arrival
\* order.
C22_WindowBounded ==
  LET n == Len(win.log)
      k == IF n < WindowSize THEN n ELSE WindowSize
  IN /\ Len(win.list) <= WindowSize
     /\ win.list = SubSeq(win.log, n - k + 1, n)

\* The push client's window is full and has dropped its two oldest entries.
C22_Witness ==
  /\ variant = "push"
  /\ win.step = 1
  /\ Len(win.log) = PushWindow + 2
  /\ Len(win.list) = PushWindow
  /\ win.list[1] = win.log[3]

(***************************************************************************)
(*                      PROPERTIES: MJPEG URL                              *)
(***************************************************************************)

\* How the image element's src is read by the server: a path and the query's
\* parameters in order.  A URL string is parsed by finding the path and the
\* parameters that are written as that string.
UrlPaths == {"/api/stream/" \o e : e \in {"detect", "segment", "combined"}}

UrlParams ==
  {[key |-> "source", value |-> EncodeParam(s)] : s \in Sources}
  \cup {[key |-> "conf", value |-> HundredthsToString(c)] : c \in Confidences}
  \cup {[key |-> "alpha", value |-> HundredthsToString(a)] : a \in Alphas}

UrlQueries ==
  {<<>>}
  \cup {<<a>> : a \in UrlParams}
  \cup {q \in UrlParams \X UrlParams : q[1].key # q[2].key}
  \cup {q \in UrlParams \X UrlParams \X UrlParams :
          q[1].key # q[2].key /\ q[1].key # q[3].key /\ q[2].key # q[3].key}

RECURSIVE QueryString(_)
QueryString(q) ==
  IF q = <<>> THEN ""
  ELSE q[1].key \o "=" \o q[1].value
         \o (IF Len(q) > 1 THEN "&" \o QueryString(Tail(q)) ELSE "")

UrlString(u) == u.path \o "?" \o QueryString(u.query)

ParseUrl(s) == {u \in [path : UrlPaths, query : UrlQueries] : UrlString(u) = s}

UrlKeys(u) == {u.query[i].key : i \in DOMAIN u.query}

\* C23 (SpecMjpeg): the MJPEG URL of a started stream targets
\* /api/stream/detect for yolo, /api/stream/segment for unet and
\* /api/stream/combined for combined; it always carries the source parameter,
\* carries conf exactly when the type is yolo or combined, and alpha exactly
\* when the type is unet or combined.
C23_UrlShape ==
  mjpeg.isStreaming
    => LET t == mjpeg.settings.streamType
       IN \E u \in ParseUrl(mjpeg.streamUrl) :
            /\ t = "yolo" => u.path = "/api/stream/detect"
            /\ t = "unet" => u.path = "/api/stream/segment"
            /\ t = "combined" => u.path = "/api/stream/combined"
            /\ "source" \in UrlKeys(u)
            /\ "conf" \in UrlKeys(u) <=> t \in {"yolo", "combined"}
            /\ "alpha" \in UrlKeys(u) <=> t \in {"unet", "combined"}

\* A unet stream started on a network source: alpha and no conf.
C23_Witness ==
  /\ mjpeg.lastOp = "start"
  /\ mjpeg.settings.streamType = "unet"
  /\ mjpeg.streamUrl = "/api/stream/segment?source=rtsp%3A%2F%2Fcam&alpha=0.9"

(***************************************************************************)
(*                      PROPERTIES: THEME AT PAGE LOAD                     *)
(***************************************************************************)

\* C24 (SpecTheme): on every page load the pre-hydration script and the theme
\* store's initialisation agree: for every stored theme value (absent, 'dark',
\* 'light', any other string, or storage throwing on access) and every OS
\* preference, the root carries the class "dark" after the script exactly
\* when the store's initial isDarkMode is true, so hydration flips nothing.
C24_ScriptAgreesWithStore ==
  theme.phase = "effects" => theme.rootDark = theme.isDarkMode

(***************************************************************************)
(*                        PROPERTIES: SOCKET CLIENTS                       *)
(***************************************************************************)

\* C25 (SpecStreaming): while streaming is not active no frame or detection
\* data is retained: a frame event handled right after the push client's
\* stopStream, or a detection_result event handled while the camera-fed
\* client is not streaming, leaves the displayed frame, the metadata or
\* latest result and the FPS window cleared.
C25_LateEventsIgnored ==
  [][/\ (push.lastOp = "stop" /\ push'.lastOp = "frame")
          => /\ push'.currentFrame = 0
             /\ push'.metadata = 0
             /\ push'.frameTimestamps = <<>>
     /\ (/\ ~cam.isStreaming
         /\ cam'.isConnected
         /\ Len(cam'.unanswered) < Len(cam.unanswered))
          => /\ cam'.latestResult = 0
             /\ cam'.frameTimesRef = <<>>]_vars

\* C26 (SpecCamera): every process_frame message carries a frame_id that is
\* strictly greater than every frame_id emitted before it, across stops and
\* restarts too.
C26_FrameIdsIncrease ==
  \A i, j \in DOMAIN cam.sent : i < j => cam.sent[i] < cam.sent[j]

\* C27 (SpecStreaming): whenever an FPS figure is computed, in either socket
\* client, the time span it divides by is strictly positive, so the figure is
\* a finite non-negative integer.
C27_FpsFinite ==
  /\ cam.fps.finite /\ cam.fps.value >= 0
  /\ push.fps.finite /\ push.fps.value >= 0

\* C28 (SpecCamera): frame sending makes progress: while the camera stream is
\* active and the socket connected, once the in-flight guard is clear a tick
\* of the frame timer is able to send another frame; and the guard is cleared
\* only by a detection_result event, a socket error event or stopStreaming.
C28_SendingProgresses ==
  /\ [](/\ cam.isStreaming
        /\ cam.isConnected
        /\ ~cam.processingRef
        /\ cam.videoSrc # 0
        => \E t \in cam.timers : captureGuard(cam, t))
  /\ [][(cam.processingRef /\ ~cam'.processingRef)
          => \/ Len(cam'.unanswered) < Len(cam.unanswered)
             \/ CameraStopStep]_vars

(***************************************************************************)
(*                       PROPERTIES: MJPEG PAGE STATE                      *)
(***************************************************************************)

\* C29 (SpecMjpeg): on the MJPEG page isLoading and streamError are never both
\* set; either being set implies isStreaming; and streamUrl is non-empty
\* exactly while isStreaming, when it is the URL derived from the settings,
\* which are frozen while streaming.
C29_MjpegConsistent ==
  /\ ~(mjpeg.isLoading /\ mjpeg.streamError # "")
  /\ (mjpeg.isLoading \/ mjpeg.streamError # "") => mjpeg.isStreaming
  /\ mjpeg.streamUrl # NoStreamUrl <=> mjpeg.isStreaming
  /\ mjpeg.isStreaming => mjpeg.streamUrl = getMjpegUrl(mjpeg.settings)

\* The stream of changed settings failed to load: the error is shown, the
\* page still streams and holds the URL.
C29_Witness ==
  /\ mjpeg.lastOp = "imageError"
  /\ mjpeg.isStreaming
  /\ ~mjpeg.isLoading
  /\ mjpeg.streamError # ""
  /\ mjpeg.settings.streamType = "combined"
  /\ mjpeg.streamUrl = "/api/stream/combined?source=0&conf=0.5&alpha=0.4"

\* C30 (SpecCamera): after toggleCamera the delayed startStreaming requests
\* the camera with the facingMode that toggleCamera just switched to: when
\* the timeout fires, the getUserMedia call it makes carries the current
\* facingMode.
C30_RestartUsesNewFacing ==
  [][Len(cam'.timeouts) < Len(cam.timeouts)
       => cam'.gum[Len(cam'.gum)].facing = cam.facingMode]_vars

====
